---- MODULE Spec2Model ----
(***************************************************************************)
(* HealthChain EHR client: the `ehr` decorator (wrapper) that validates    *)
(* its inputs and pre-populates an EHRClient's request queue, the client's *)
(* generate_request, and the client's batch dispatch send_request.         *)
(*                                                                         *)
(* One caller thread is modelled (the code is single-threaded, sequential  *)
(* async): pc is the position of that thread, "idle" between operations.    *)
(* wrapper and send_request are broken into the steps of their code;       *)
(* every step is forced by pc, none is optional.                           *)
(***************************************************************************)
EXTENDS Naturals, Integers, Sequences, FiniteSets

\* ---------------------------------------------------------------- bounds
MaxCalls == 2     \* decorated calls made by the caller (clients created)
MaxNum   == 2     \* largest value of the decorator's num
MaxAttrs == 3     \* most data-generator attributes found on the caller
MaxQueue == 3     \* longest queue built by direct generate_request calls

\* ------------------------------------------------- external collaborators
\* healthchain.workflows.Workflow: the enumerated workflow values.
Workflow == {"patient-view", "encounter-discharge"}

\* The identifiers the decorator may be given: the valid ones and one that
\* maps to no Workflow value.
WorkflowIds == Workflow \cup {"not-a-workflow"}

NoWorkflow == "unset"

\* Callers: type(self) is or is not a BaseUseCase subclass, self.type is or
\* is not in UseCaseType, and find_attributes_of_type(self, CdsDataGenerator)
\* finds k attributes, named 1..k, in ascending or in descending order.
Callers ==
  [isUseCase : BOOLEAN, typeKnown : BOOLEAN,
   attrs : {[j \in 1..k |-> j] : k \in 0..MaxAttrs}
             \cup {[j \in 1..k |-> k + 1 - j] : k \in 0..MaxAttrs}]

NoCaller == [isUseCase |-> FALSE, typeKnown |-> FALSE, attrs |-> <<>>]

\* The positional and keyword arguments a call is made with.
Args == {"a", "b"}

NoArgs == "none"

\* Exceptions that leave an operation.
NoError == [type |-> "none", options |-> {}]

Error(t) == [type |-> t, options |-> {}]

VARIABLES
  pc,                         \* position of the caller thread
  calls,                      \* decorated calls made so far
  self,                       \* wrapper: the caller object
  workflow,                   \* decorator argument: workflow identifier
  num,                        \* decorator argument: repeat count
  args,                       \* wrapper: the call's *args and **kwargs
  workflow_enum,              \* wrapper local: the resolved Workflow
  data_generator_attributes,  \* wrapper local: attribute names found
  i,                          \* wrapper local: index of the config loop
  gen_i,                      \* wrapper local: iterations of range(num) done
  method,                     \* wrapper local: the EHRClient (0: none)
  dg_workflow,                \* workflow set on each data-generator attribute
  set_calls,                  \* attributes set_workflow was attempted on
  error_log,                  \* log.error records of the current operation
  warning_log,                \* log.warning records of the current operation
  func_calls,                 \* generator-function invocations of the operation
  gen_log,                    \* what each of them received and gave back
  raised,                     \* exception leaving the current operation
  request_data,               \* client id -> EHRClient.request_data
  client_workflow,            \* client id -> EHRClient.workflow
  nclients,                   \* EHRClient objects constructed so far
  returned,                   \* clients the caller holds
  sending,                    \* send_request: the client (0: none)
  client_open,                \* send_request: the httpx.AsyncClient scope is open
  scopes,                     \* send_request: AsyncClient scopes it has opened
  send_i,                     \* send_request: queue elements iterated so far
  in_flight,                  \* send_request: POSTs awaiting completion
  hung,                       \* the awaited POST's server never finishes responding
  sent,                       \* send_request: the requests POSTed, in order
  outcomes,                   \* send_request: how each POST ended, in order
  json_responses,             \* send_request local: the collected results
  origin,                     \* which statement appended each result
  result,                     \* send_request: the list returned
  last_sent                   \* the send_request that returned just before

wvars == <<self, workflow, num, args, workflow_enum,
           data_generator_attributes, i, gen_i, method, dg_workflow,
           set_calls, error_log, warning_log>>

heap == <<request_data, client_workflow, nclients, returned>>

sloop == <<sending, client_open, scopes, send_i, in_flight, hung, sent,
           outcomes, json_responses, origin, result>>

svars == <<sloop, last_sent>>

\* No send_request returned just before.
NoSend == [client |-> 0, length |-> 0]

vars == <<pc, calls, wvars, func_calls, gen_log, raised, heap, svars>>

ClientIds == 1..MaxCalls

NoAttrs == [a \in 1..MaxAttrs |-> NoWorkflow]

Init ==
  /\ pc = "idle"
  /\ calls = 0
  /\ self = NoCaller
  /\ workflow = NoWorkflow
  /\ num = 0
  /\ args = NoArgs
  /\ workflow_enum = NoWorkflow
  /\ data_generator_attributes = <<>>
  /\ i = 0
  /\ gen_i = 0
  /\ method = 0
  /\ dg_workflow = NoAttrs
  /\ set_calls = <<>>
  /\ error_log = 0
  /\ warning_log = 0
  /\ func_calls = 0
  /\ gen_log = <<>>
  /\ raised = NoError
  /\ request_data = [c \in ClientIds |-> <<>>]
  /\ client_workflow = [c \in ClientIds |-> NoWorkflow]
  /\ nclients = 0
  /\ returned = {}
  /\ sending = 0
  /\ client_open = FALSE
  /\ scopes = 0
  /\ send_i = 0
  /\ in_flight = 0
  /\ hung = FALSE
  /\ sent = <<>>
  /\ outcomes = <<>>
  /\ json_responses = <<>>
  /\ origin = <<>>
  /\ result = <<>>
  /\ last_sent = NoSend

\* ------------------------------------------------------------ the wrapper

\* The caller invokes the decorated function: self, the call's arguments,
\* and the decorator's workflow and num, are the inputs.
CallWrapper ==
  /\ pc = "idle"
  /\ calls < MaxCalls
  /\ \E s \in Callers, w \in WorkflowIds, n \in (0 - 1)..MaxNum, a \in Args :
       /\ self' = s
       /\ workflow' = w
       /\ num' = n
       /\ args' = a
  /\ calls' = calls + 1
  /\ pc' = "w_assert"
  /\ last_sent' = NoSend
  /\ UNCHANGED <<workflow_enum, data_generator_attributes, i, gen_i, method,
                 dg_workflow, set_calls, error_log, warning_log, func_calls,
                 raised, heap, sloop, gen_log>>

\* Faulty variant of IsUseCase: the capability check is missing.
IsUseCase_Unchecked(s) == TRUE

\* assert issubclass(type(self), BaseUseCase)
IsUseCase(s) == s.isUseCase

AssertUseCase ==
  /\ pc = "w_assert"
  /\ IF IsUseCase(self)
       THEN pc' = "w_workflow" /\ raised' = raised
       ELSE pc' = "w_raised" /\ raised' = Error("AssertionError")
  /\ UNCHANGED <<calls, wvars, func_calls, heap, svars, gen_log>>

\* Faulty variant of IsWorkflow: the identifier is not validated.
IsWorkflow_Unchecked(w) == TRUE

\* Workflow(workflow) succeeds exactly on the enum's values.
IsWorkflow(w) == w \in Workflow

\* Faulty variant of ResolveWorkflow: the use-case type is checked before
\* the data generators are configured.
ResolveWorkflow_TypeFirst ==
  /\ pc = "w_workflow"
  /\ IF IsWorkflow(workflow) /\ self.typeKnown
       THEN /\ workflow_enum' = workflow
            /\ data_generator_attributes' = self.attrs
            /\ i' = 0
            /\ pc' = "w_config"
            /\ raised' = raised
       ELSE /\ raised' = IF IsWorkflow(workflow)
                           THEN Error("NotImplementedError")
                           ELSE [type |-> "ValueError", options |-> Workflow]
            /\ pc' = "w_raised"
            /\ UNCHANGED <<workflow_enum, data_generator_attributes, i>>
  /\ UNCHANGED <<calls, self, workflow, num, gen_i, method, dg_workflow,
                 set_calls, error_log, warning_log, func_calls, heap, svars,
                 args, gen_log>>

\* try: workflow_enum = Workflow(workflow) except ValueError: raise
\* ValueError(... please select from [x.value for x in Workflow]); then
\* data_generator_attributes = find_attributes_of_type(self, CdsDataGenerator)
ResolveWorkflow ==
  /\ pc = "w_workflow"
  /\ IF IsWorkflow(workflow)
       THEN /\ workflow_enum' = workflow
            /\ data_generator_attributes' = self.attrs
            /\ i' = 0
            /\ pc' = "w_config"
            /\ raised' = raised
       ELSE /\ raised' = [type |-> "ValueError", options |-> Workflow]
            /\ pc' = "w_raised"
            /\ UNCHANGED <<workflow_enum, data_generator_attributes, i>>
  /\ UNCHANGED <<calls, self, workflow, num, gen_i, method, dg_workflow,
                 set_calls, error_log, warning_log, func_calls, heap, svars,
                 args, gen_log>>

\* if i > 1: log.warning("More than one DataGenerator instances found.")
WarnAt(k) == k > 1

\* Faulty variant of ConfigureGenerator: no try/except around assign_to_attribute,
\* so a failing set_workflow leaves the wrapper.
ConfigureGenerator_Uncaught ==
  /\ pc = "w_config"
  /\ i < Len(data_generator_attributes)
  /\ LET attribute_name == data_generator_attributes[i + 1] IN
       /\ set_calls' = Append(set_calls, attribute_name)
       /\ \E ok \in BOOLEAN :
            IF ok
              THEN /\ dg_workflow' =
                        [dg_workflow EXCEPT ![attribute_name] = workflow_enum]
                   /\ warning_log' =
                        IF i > 1 THEN warning_log + 1 ELSE warning_log
                   /\ i' = i + 1
                   /\ UNCHANGED <<pc, raised>>
              ELSE /\ raised' = Error("ConfigError")
                   /\ pc' = "w_raised"
                   /\ UNCHANGED <<dg_workflow, warning_log, i>>
  /\ UNCHANGED <<calls, self, workflow, num, workflow_enum,
                 data_generator_attributes, gen_i, method, error_log,
                 func_calls, heap, svars, args, gen_log>>

\* One iteration of `for i in range(len(data_generator_attributes))`:
\* assign_to_attribute(self, attribute_name, "set_workflow", workflow_enum)
\* either sets the workflow or raises; `except Exception` logs the error.
ConfigureGenerator ==
  /\ pc = "w_config"
  /\ i < Len(data_generator_attributes)
  /\ LET attribute_name == data_generator_attributes[i + 1] IN
       /\ set_calls' = Append(set_calls, attribute_name)
       /\ \E ok \in BOOLEAN :
            IF ok
              THEN /\ dg_workflow' =
                        [dg_workflow EXCEPT ![attribute_name] = workflow_enum]
                   /\ error_log' = error_log
              ELSE /\ dg_workflow' = dg_workflow
                   /\ error_log' = error_log + 1
  /\ warning_log' = IF WarnAt(i) THEN warning_log + 1 ELSE warning_log
  /\ i' = i + 1
  /\ UNCHANGED <<pc, calls, self, workflow, num, workflow_enum,
                 data_generator_attributes, gen_i, method, func_calls, raised,
                 heap, svars, args, gen_log>>

\* Faulty variant of TypeKnown: every use-case type is accepted.
TypeKnown_Unchecked(s) == TRUE

\* self.type in UseCaseType
TypeKnown(s) == s.typeKnown

\* Faulty variant of CheckUseCaseType: request_data is one list shared by
\* the class, so a new client starts with its predecessor's records.
CheckUseCaseType_SharedQueue ==
  /\ pc = "w_config"
  /\ i >= Len(data_generator_attributes)
  /\ IF TypeKnown(self)
       THEN /\ nclients' = nclients + 1
            /\ method' = nclients + 1
            /\ request_data' =
                 [request_data EXCEPT ![nclients + 1] =
                    IF nclients >= 1 THEN request_data[nclients] ELSE <<>>]
            /\ client_workflow' =
                 [client_workflow EXCEPT ![nclients + 1] = workflow_enum]
            /\ gen_i' = 0
            /\ pc' = "w_generate"
            /\ raised' = raised
       ELSE /\ raised' = Error("NotImplementedError")
            /\ pc' = "w_raised"
            /\ UNCHANGED <<nclients, method, request_data, client_workflow,
                           gen_i>>
  /\ UNCHANGED <<calls, self, workflow, num, workflow_enum,
                 data_generator_attributes, i, dg_workflow, set_calls,
                 error_log, warning_log, func_calls, returned, svars, args,
                 gen_log>>

\* The loop is over; `if self.type in UseCaseType:` constructs the client
\* (EHRClient.__init__: request_data = []), else NotImplementedError.
CheckUseCaseType ==
  /\ pc = "w_config"
  /\ i >= Len(data_generator_attributes)
  /\ IF TypeKnown(self)
       THEN /\ nclients' = nclients + 1
            /\ method' = nclients + 1
            /\ request_data' = [request_data EXCEPT ![nclients + 1] = <<>>]
            /\ client_workflow' =
                 [client_workflow EXCEPT ![nclients + 1] = workflow_enum]
            /\ gen_i' = 0
            /\ pc' = "w_generate"
            /\ raised' = raised
       ELSE /\ raised' = Error("NotImplementedError")
            /\ pc' = "w_raised"
            /\ UNCHANGED <<nclients, method, request_data, client_workflow,
                           gen_i>>
  /\ UNCHANGED <<calls, self, workflow, num, workflow_enum,
                 data_generator_attributes, i, dg_workflow, set_calls,
                 error_log, warning_log, func_calls, returned, svars, args,
                 gen_log>>

\* self.strategy.construct_request(data, self.workflow)
construct_request(data, wf) == [data |-> data, workflow |-> wf]

\* What one generate_request call on client c can do: the generator function
\* raises, construct_request raises, or the record is appended.
GenOutcomes == {"ok", "func_raises", "construct_raises"}

\* Faulty variant of Enqueue: the record is inserted at the head of the queue.
Enqueue_AtHead(q, r) == <<r>> \o q

\* self.request_data.append(record)
Enqueue(q, r) == Append(q, r)

\* Faulty variant of Forwarded: the call's own arguments are dropped.
Forwarded_SelfOnly(s, a) == <<s, NoArgs>>

\* generate_request(self, *args, **kwargs): what the wrapper passes on.
Forwarded(s, a) == <<s, a>>

\* EHRClient.generate_request on client c, called with fargs, with the
\* generator's outcome. The generator's output is labelled by its position
\* in the queue it is generated for (0: it raised).
generate_request(c, fargs, outcome) ==
  /\ func_calls' = func_calls + 1
  /\ gen_log' =
       Append(gen_log,
              [args |-> fargs,
               out |-> IF outcome = "func_raises"
                         THEN 0 ELSE Len(request_data[c]) + 1])
  /\ IF outcome = "ok"
       THEN /\ request_data' =
                 [request_data EXCEPT ![c] =
                    Enqueue(@, construct_request(Len(@) + 1,
                                                 client_workflow[c]))]
            /\ raised' = raised
       ELSE /\ request_data' = request_data
            /\ raised' = Error(IF outcome = "func_raises"
                                 THEN "GeneratorError" ELSE "ConstructError")

\* Faulty variant of RangeLen: the loop runs once more than num says.
RangeLen_OneMore(n) == IF n > 0 THEN n + 1 ELSE 0

\* len(range(n))
RangeLen(n) == IF n > 0 THEN n ELSE 0

\* Faulty variant of GenerateStep: a failing generation call is swallowed
\* and the loop goes on to the next call.
GenerateStep_Swallow ==
  /\ pc = "w_generate"
  /\ gen_i < RangeLen(num)
  /\ \E outcome \in GenOutcomes :
       /\ func_calls' = func_calls + 1
       /\ gen_log' =
            Append(gen_log,
                   [args |-> Forwarded(self, args),
                    out |-> IF outcome = "func_raises"
                              THEN 0 ELSE Len(request_data[method]) + 1])
       /\ request_data' =
            IF outcome = "ok"
              THEN [request_data EXCEPT ![method] =
                      Enqueue(@, construct_request(Len(@) + 1,
                                                   client_workflow[method]))]
              ELSE request_data
  /\ gen_i' = gen_i + 1
  /\ UNCHANGED <<pc, calls, self, workflow, num, workflow_enum,
                 data_generator_attributes, i, method, dg_workflow, set_calls,
                 error_log, warning_log, raised, client_workflow, nclients,
                 returned, svars, args>>

\* One iteration of `for _ in range(num): method.generate_request(...)`.
GenerateStep ==
  /\ pc = "w_generate"
  /\ gen_i < RangeLen(num)
  /\ \E outcome \in GenOutcomes :
       /\ generate_request(method, Forwarded(self, args), outcome)
       /\ pc' = IF outcome = "ok" THEN "w_generate" ELSE "w_raised"
  /\ gen_i' = gen_i + 1
  /\ UNCHANGED <<calls, self, workflow, num, workflow_enum,
                 data_generator_attributes, i, method, dg_workflow, set_calls,
                 error_log, warning_log, client_workflow, nclients, returned,
                 svars, args>>

\* return method
ReturnClient ==
  /\ pc = "w_generate"
  /\ gen_i >= RangeLen(num)
  /\ returned' = returned \cup {method}
  /\ pc' = "w_returned"
  /\ UNCHANGED <<calls, wvars, func_calls, raised, request_data,
                 client_workflow, nclients, svars, gen_log>>

\* ------------------------------------- generate_request called directly

\* The caller calls generate_request on a client it holds, with arguments
\* of its own.
DirectGenerate ==
  /\ pc = "idle"
  /\ \E c \in returned :
       /\ Len(request_data[c]) < MaxQueue
       /\ \E a \in Args, outcome \in GenOutcomes :
            /\ generate_request(c, Forwarded(NoCaller, a), outcome)
            /\ pc' = IF outcome = "ok" THEN "g_returned" ELSE "g_raised"
            /\ method' = c
  /\ last_sent' = NoSend
  /\ UNCHANGED <<calls, self, workflow, num, workflow_enum,
                 data_generator_attributes, i, gen_i, dg_workflow, set_calls,
                 error_log, warning_log, client_workflow, nclients, returned,
                 sloop, args>>

\* ----------------------------------------------------------- send_request

\* What the destination answers on the wire.
Statuses == {200, 301, 500}

BodyTexts == {"{}", "{cards}", "not-json"}

\* The outcomes of one POST: a response, or an exception raised by
\* client.post. Timeout(10.0, read=None) bounds the connect, write and pool
\* phases, so the timeouts are ConnectTimeout, WriteTimeout and PoolTimeout.
\* A success status comes with any of the bodies, the other statuses with
\* an error page.
PostOutcomes ==
  {r \in [kind : {"response"}, status : Statuses, text : BodyTexts,
          exc : {"none"}] : r.status = 200 \/ r.text = "not-json"}
    \cup
  [kind : {"exc"}, status : {0}, text : {""},
   exc : {"ConnectTimeout", "ConnectError"}]

\* The read phase has no ceiling.
NoCeiling == "None"

\* Faulty variant of Timeout: the read phase gets the ten seconds of the
\* other phases.
Timeout_ReadCeiling ==
  [connect |-> "10.0", read |-> "10.0", write |-> "10.0", pool |-> "10.0"]

\* timeout = httpx.Timeout(10.0, read=None)
Timeout ==
  [connect |-> "10.0", read |-> NoCeiling, write |-> "10.0", pool |-> "10.0"]

\* How the awaited POST can complete: a server that finishes responding
\* gives one of the outcomes; one that never does leaves the read phase
\* waiting, and only a ceiling on that phase ends the wait, by ReadTimeout.
Completions(h) ==
  IF ~h
    THEN PostOutcomes
    ELSE IF Timeout.read = NoCeiling
      THEN {}
      ELSE {[kind |-> "exc", status |-> 0, text |-> "", exc |-> "ReadTimeout"]}

\* httpx exception classes: each class with its base classes.
Bases(e) ==
  CASE e = "HTTPStatusError" -> {"HTTPStatusError", "HTTPError"}
    [] e = "ConnectTimeout" ->
         {"ConnectTimeout", "TimeoutException", "TransportError",
          "RequestError", "HTTPError"}
    [] e = "ReadTimeout" ->
         {"ReadTimeout", "TimeoutException", "TransportError",
          "RequestError", "HTTPError"}
    [] e = "ConnectError" ->
         {"ConnectError", "NetworkError", "TransportError", "RequestError",
          "HTTPError"}
    [] e = "JSONDecodeError" -> {"JSONDecodeError", "ValueError"}
    [] OTHER -> {e}

\* The JSON documents: a mapping is its set of <<key, value>> pairs.
EmptyMapping == {}

Decodable(text) == text \in {"{}", "{cards}"}

\* response.json()
Json(text) == IF text = "{}" THEN EmptyMapping ELSE {<<"cards", "[]">>}

\* Response.is_success, which raise_for_status tests.
is_success(status) == 200 <= status /\ status <= 299

\* The try body after the await: client.post returns or raises,
\* response.raise_for_status(), response.json(). The exception the body
\* raises, "none" when it reaches json_responses.append(response.json()).
BodyRaises(o) ==
  IF o.kind = "exc" THEN o.exc
  ELSE IF ~is_success(o.status) THEN "HTTPStatusError"
  ELSE IF ~Decodable(o.text) THEN "JSONDecodeError"
  ELSE "none"

\* Faulty variant of ExceptClauses: only the status error is caught.
ExceptClauses_StatusOnly == <<"HTTPStatusError">>

\* The except clauses of send_request, in the order they are written.
ExceptClauses == <<"HTTPStatusError", "TimeoutException", "RequestError">>

\* Faulty variant of Handler: the last except clause catches every
\* exception.
Handler_CatchAll(e) ==
  LET hits == {k \in 1..Len(ExceptClauses) : ExceptClauses[k] \in Bases(e)} IN
    IF hits = {} THEN Len(ExceptClauses)
    ELSE CHOOSE k \in hits : \A h \in hits : k <= h

\* The first except clause that catches e; 0 when none does.
Handler(e) ==
  LET hits == {k \in 1..Len(ExceptClauses) : ExceptClauses[k] \in Bases(e)} IN
    IF hits = {} THEN 0 ELSE CHOOSE k \in hits : \A h \in hits : k <= h

\* Faulty variant of Placeholder: the timeout clause appends an error record.
Placeholder_ErrorRecord(k) ==
  IF k = 2 THEN {<<"error", "timeout">>} ELSE EmptyMapping

\* What each except clause appends: json_responses.append({})
Placeholder(k) == EmptyMapping

\* Faulty variant of Collect: the result is inserted at the head of the list.
Collect_AtHead(rs, v) == <<v>> \o rs

\* json_responses.append(v)
Collect(rs, v) == Append(rs, v)

\* await send_request(url) is called on a client the caller holds:
\* `async with httpx.AsyncClient() as client:` and json_responses = [].
StartSend ==
  /\ pc = "idle"
  /\ \E c \in returned :
       /\ sending' = c
       /\ last_sent' = IF last_sent.client = c THEN last_sent ELSE NoSend
  /\ client_open' = TRUE
  /\ scopes' = scopes + 1
  /\ json_responses' = <<>>
  /\ send_i' = 0
  /\ pc' = "s_loop"
  /\ UNCHANGED <<calls, wvars, func_calls, raised, heap, in_flight, sent,
                 outcomes, origin, result, gen_log, hung>>

\* Faulty variant of Post: the POST is issued without being awaited, and the
\* loop goes on to the next element.
Post_NotAwaited ==
  /\ pc = "s_loop"
  /\ send_i < Len(request_data[sending])
  /\ sent' = Append(sent, request_data[sending][send_i + 1])
  /\ in_flight' = in_flight + 1
  /\ send_i' = send_i + 1
  /\ hung' = hung
  /\ UNCHANGED <<pc, calls, wvars, func_calls, raised, heap, sending,
                 client_open, scopes, outcomes, json_responses, origin,
                 result, last_sent, gen_log>>

\* `for request in self.request_data:` takes the next element, and the try
\* body starts: request.model_dump(exclude_none=True) is serialized and the
\* POST is issued, to a server that will finish responding or to one that
\* never will, or building the request raises (nothing is sent; the
\* exception is no httpx error, so it leaves send_request through the
\* `async with`, which closes the client).
Post ==
  /\ pc = "s_loop"
  /\ send_i < Len(request_data[sending])
  /\ LET request == request_data[sending][send_i + 1] IN
       \E built \in BOOLEAN :
         IF built
           THEN /\ sent' = Append(sent, request)
                /\ in_flight' = in_flight + 1
                /\ hung' \in BOOLEAN
                /\ pc' = "s_await"
                /\ UNCHANGED <<raised, client_open>>
           ELSE /\ raised' = Error("TypeError")
                /\ client_open' = FALSE
                /\ pc' = "s_raised"
                /\ UNCHANGED <<sent, in_flight, hung>>
  /\ send_i' = send_i + 1
  /\ UNCHANGED <<calls, wvars, func_calls, heap, sending, scopes, outcomes,
                 json_responses, origin, result, last_sent, gen_log>>

\* Faulty variant of Complete: an except clause sends the failed request
\* again instead of recording the placeholder.
Complete_Retry ==
  /\ pc = "s_await"
  /\ \E o \in Completions(hung) :
       LET e == BodyRaises(o) IN
         /\ outcomes' = Append(outcomes, o)
         /\ IF e = "none"
              THEN /\ json_responses' = Collect(json_responses, Json(o.text))
                   /\ origin' = Append(origin, "response.json")
                   /\ pc' = "s_loop"
                   /\ UNCHANGED <<raised, client_open, error_log, send_i>>
              ELSE IF Handler(e) # 0
                THEN /\ send_i' = send_i - 1
                     /\ error_log' = error_log + 1
                     /\ pc' = "s_loop"
                     /\ UNCHANGED <<raised, client_open, json_responses,
                                    origin>>
                ELSE /\ raised' = Error(e)
                     /\ client_open' = FALSE
                     /\ pc' = "s_raised"
                     /\ UNCHANGED <<json_responses, origin, error_log,
                                    send_i>>
  /\ in_flight' = in_flight - 1
  /\ hung' = FALSE
  /\ UNCHANGED <<calls, self, workflow, num, workflow_enum,
                 data_generator_attributes, i, gen_i, method, dg_workflow,
                 set_calls, warning_log, func_calls, heap, sending, scopes,
                 sent, result, last_sent, args, gen_log>>

\* The awaited POST completes with outcome o, one that its server and the
\* timeouts allow, and the rest of the try statement runs: the body
\* appends response.json(), or an except clause appends {}, or the
\* exception is not caught and leaves send_request.
Complete ==
  /\ pc = "s_await"
  /\ \E o \in Completions(hung) :
       LET e == BodyRaises(o) IN
         /\ outcomes' = Append(outcomes, o)
         /\ IF e = "none"
              THEN /\ json_responses' = Collect(json_responses, Json(o.text))
                   /\ origin' = Append(origin, "response.json")
                   /\ pc' = "s_loop"
                   /\ UNCHANGED <<raised, client_open, error_log>>
              ELSE IF Handler(e) # 0
                THEN /\ json_responses' =
                          Collect(json_responses, Placeholder(Handler(e)))
                     /\ origin' = Append(origin, "except")
                     /\ error_log' = error_log + 1
                     /\ pc' = "s_loop"
                     /\ UNCHANGED <<raised, client_open>>
                ELSE /\ raised' = Error(e)
                     /\ client_open' = FALSE
                     /\ pc' = "s_raised"
                     /\ UNCHANGED <<json_responses, origin, error_log>>
  /\ in_flight' = in_flight - 1
  /\ hung' = FALSE
  /\ UNCHANGED <<calls, self, workflow, num, workflow_enum,
                 data_generator_attributes, i, gen_i, method, dg_workflow,
                 set_calls, warning_log, func_calls, heap, sending, scopes,
                 send_i, sent, result, last_sent, args, gen_log>>

\* Faulty variant of ReturnResponses: the queue is emptied once it has been
\* sent.
ReturnResponses_Flushes ==
  /\ pc = "s_loop"
  /\ send_i >= Len(request_data[sending])
  /\ client_open' = FALSE
  /\ result' = json_responses
  /\ request_data' = [request_data EXCEPT ![sending] = <<>>]
  /\ pc' = "s_returned"
  /\ UNCHANGED <<calls, wvars, func_calls, raised, client_workflow, nclients,
                 returned, sending, scopes, send_i, in_flight, sent, outcomes,
                 json_responses, origin, last_sent, gen_log, hung>>

\* Faulty variant of ReturnResponses: the client is not used as a context
\* manager, and nothing closes it when the list is returned.
ReturnResponses_NotClosed ==
  /\ pc = "s_loop"
  /\ send_i >= Len(request_data[sending])
  /\ result' = json_responses
  /\ pc' = "s_returned"
  /\ UNCHANGED <<calls, wvars, func_calls, raised, heap, sending, client_open,
                 scopes, send_i, in_flight, sent, outcomes, json_responses,
                 origin, last_sent, gen_log, hung>>

\* The loop is exhausted: the `async with` block ends, closing the client,
\* and `return json_responses`.
ReturnResponses ==
  /\ pc = "s_loop"
  /\ send_i >= Len(request_data[sending])
  /\ client_open' = FALSE
  /\ result' = json_responses
  /\ pc' = "s_returned"
  /\ UNCHANGED <<calls, wvars, func_calls, raised, heap, sending, scopes,
                 send_i, in_flight, sent, outcomes, json_responses, origin,
                 last_sent, gen_log, hung>>

\* ------------------------------------------------------ end of operation

Ended ==
  {"w_returned", "w_raised", "g_returned", "g_raised", "s_returned",
   "s_raised"}

\* The operation's frame is gone: its locals and what it logged are dropped
\* and the caller is idle again; of a send_request that returned, the
\* caller keeps the client and the length of the list until its next
\* operation on another client or on a queue. A client the wrapper built
\* and did not return is unreachable and is collected.
Finish ==
  /\ pc \in Ended
  /\ pc' = "idle"
  /\ self' = NoCaller
  /\ workflow' = NoWorkflow
  /\ num' = 0
  /\ args' = NoArgs
  /\ workflow_enum' = NoWorkflow
  /\ data_generator_attributes' = <<>>
  /\ i' = 0
  /\ gen_i' = 0
  /\ method' = 0
  /\ dg_workflow' = NoAttrs
  /\ set_calls' = <<>>
  /\ error_log' = 0
  /\ warning_log' = 0
  /\ func_calls' = 0
  /\ gen_log' = <<>>
  /\ raised' = NoError
  /\ sending' = 0
  /\ scopes' = 0
  /\ send_i' = 0
  /\ sent' = <<>>
  /\ outcomes' = <<>>
  /\ json_responses' = <<>>
  /\ origin' = <<>>
  /\ result' = <<>>
  /\ last_sent' =
       IF pc = "s_returned"
         THEN [client |-> sending, length |-> Len(result)] ELSE NoSend
  /\ request_data' =
       [c \in ClientIds |->
          IF c \in 1..nclients /\ c \notin returned
            THEN <<>> ELSE request_data[c]]
  /\ client_workflow' =
       [c \in ClientIds |->
          IF c \in 1..nclients /\ c \notin returned
            THEN NoWorkflow ELSE client_workflow[c]]
  /\ UNCHANGED <<calls, nclients, returned, client_open, in_flight, hung>>

\* ================================================================ claims

InWrapper ==
  pc \in {"w_assert", "w_workflow", "w_config", "w_generate", "w_returned",
          "w_raised"}

InSend == pc \in {"s_loop", "s_await", "s_returned", "s_raised"}

\* The POST returned a success status (2xx).
SuccessStatus(o) == o.kind = "response" /\ o.status \in 200..299

\* The four outcome classes of the dispatch contract.
WithJsonBody(o) == SuccessStatus(o) /\ o.text # "not-json"

NonSuccessStatus(o) == o.kind = "response" /\ o.status \notin 200..299

TimedOut(o) == o.kind = "exc" /\ o.exc = "ConnectTimeout"

TransportFailed(o) == o.kind = "exc" /\ o.exc = "ConnectError"

FailedRequest(o) == NonSuccessStatus(o) \/ TimedOut(o) \/ TransportFailed(o)

\* The element the contract promises for a POST that ended with outcome o.
Promised(o) == IF WithJsonBody(o) THEN Json(o.text) ELSE EmptyMapping

\* C1: for a queue of length n and any outcomes drawn from {2xx with JSON
\* body, non-2xx status, timeout, transport failure}, the list send_request
\* returns has length n, and element j is the one produced by the POST of
\* queue element j: the j-th POST carried queue element j, and the j-th
\* result is what that POST's outcome yields. While the loop runs the
\* collected results are the same prefix.
C1_ResultsInQueueOrder ==
  InSend =>
    LET q == request_data[sending] IN
      /\ Len(json_responses) <= Len(q)
      /\ Len(sent) <= Len(q)
      /\ \A j \in 1..Len(sent) : sent[j] = q[j]
      /\ \A j \in 1..Len(json_responses) :
           json_responses[j] = Promised(outcomes[j])
      /\ pc = "s_returned" =>
           /\ Len(result) = Len(q)
           /\ Len(outcomes) = Len(q)
           /\ \A j \in 1..Len(q) :
                sent[j] = q[j] /\ result[j] = Promised(outcomes[j])

\* C1 witness: a queue of three was sent, the three POSTs ended in a JSON
\* body, a non-2xx status and a transport failure, and the list came back.
C1_Witness ==
  /\ pc = "s_returned"
  /\ Len(request_data[sending]) = 3
  /\ WithJsonBody(outcomes[1]) /\ outcomes[1].text = "{cards}"
  /\ NonSuccessStatus(outcomes[2])
  /\ TransportFailed(outcomes[3])
  /\ Len(result) = 3

\* C2: a failed request (non-2xx status, timeout, transport failure) never
\* aborts the batch and never raises to the caller: every element the loop
\* has reached was POSTed, the loop goes on after a failure, send_request
\* leaves by an exception only when building a request raised or a success
\* response could not be decoded, never with a failed request as the last
\* thing that happened; it returns only after all n were sent; and when
\* every request timed out the result is n empty mappings, no exception.
C2_FailuresNeverAbort ==
  InSend =>
    LET q == request_data[sending]
        n == Len(outcomes) IN
      /\ pc \in {"s_loop", "s_returned"} =>
           Len(sent) = send_i /\ n = send_i
      /\ pc = "s_returned" =>
           Len(sent) = Len(q) /\ raised = NoError
      /\ pc = "s_raised" =>
           \/ Len(sent) < send_i
           \/ n > 0 /\ ~FailedRequest(outcomes[n])
      /\ (pc # "s_raised" /\ n = Len(q) /\ pc # "s_await"
            /\ \A j \in 1..n : TimedOut(outcomes[j])) =>
           /\ json_responses = [j \in 1..n |-> EmptyMapping]
           /\ raised = NoError
      /\ (n > 0 /\ FailedRequest(outcomes[n]) /\ Len(sent) = send_i) =>
           pc \in {"s_loop", "s_await", "s_returned"} /\ raised = NoError

\* C2 witness: all three requests of a queue timed out and send_request
\* returned three empty mappings.
C2_Witness ==
  /\ pc = "s_returned"
  /\ Len(request_data[sending]) = 3
  /\ \A j \in 1..3 : TimedOut(outcomes[j])
  /\ result = <<EmptyMapping, EmptyMapping, EmptyMapping>>
  /\ raised = NoError

QueueLengthFor(n) == IF n >= 0 THEN n ELSE 0

\* C4 as stated: whenever the decorated function returns a client (the
\* caller was a recognized use case and no generation call raised), the
\* client's queue length equals num, for every value of num.
C4_QueueLengthIsNum ==
  pc = "w_returned" => Len(request_data[method]) = num

\* C4 amended: the returned client's queue length equals num for every
\* num >= 0, and is 0 for a negative num (range(num) is then empty); the
\* generator was invoked that many times.
C4_QueueLengthIsNumOrZero ==
  pc = "w_returned" =>
    /\ method \in returned
    /\ workflow \in Workflow
    /\ Len(request_data[method]) = QueueLengthFor(num)
    /\ func_calls = QueueLengthFor(num)

\* C4 witness: a call with the largest num returned a client holding that
\* many records.
C4_Witness ==
  /\ pc = "w_returned"
  /\ num = MaxNum
  /\ workflow = "encounter-discharge"
  /\ Len(request_data[method]) = MaxNum

\* What an invalid workflow identifier never lets happen: no client, no
\* generator invocation, no set_workflow attempt on any attribute.
NothingConfigured ==
  /\ method = 0
  /\ nclients <= calls - 1
  /\ func_calls = 0
  /\ set_calls = <<>>
  /\ dg_workflow = NoAttrs

InvalidArgumentError == [type |-> "ValueError", options |-> Workflow]

C6_UnknownTypeIsNotImplemented ==
  (InWrapper /\ self.isUseCase /\ ~self.typeKnown) =>
    /\ method = 0
    /\ func_calls = 0
    /\ pc # "w_returned"
    /\ pc = "w_raised" => raised = Error("NotImplementedError")

\* C6 amended: when the caller's use-case type is not in UseCaseType the
\* decorated call fails, no EHRClient is built or returned and the generator
\* is never invoked; the failure is NotImplementedError when the caller is a
\* BaseUseCase subclass and the workflow identifier is valid, and otherwise
\* the error of the earlier check that failed (AssertionError, ValueError).
C6_UnknownTypeFails ==
  (InWrapper /\ ~self.typeKnown) =>
    /\ method = 0
    /\ nclients <= calls - 1
    /\ func_calls = 0
    /\ pc \in {"w_assert", "w_workflow", "w_config", "w_raised"}
    /\ pc = "w_raised" =>
         raised = IF ~self.isUseCase THEN Error("AssertionError")
                  ELSE IF workflow \notin Workflow THEN InvalidArgumentError
                  ELSE Error("NotImplementedError")

\* C6 witness: a use case with a valid workflow and num = 2, whose type is
\* not known, was stopped by NotImplementedError.
C6_Witness ==
  /\ pc = "w_raised"
  /\ self.isUseCase /\ ~self.typeKnown
  /\ workflow \in Workflow
  /\ num = 2
  /\ raised = Error("NotImplementedError")

\* C7: the capability check is the first step: when the caller is no
\* BaseUseCase subclass the call fails before the workflow is validated,
\* before any set_workflow attempt, before any client and any generation
\* call, and the failure reported is the capability failure, also when the
\* workflow identifier is invalid too.
C7_CapabilityCheckFirst ==
  (InWrapper /\ ~self.isUseCase) =>
    /\ pc \in {"w_assert", "w_raised"}
    /\ workflow_enum = NoWorkflow
    /\ set_calls = <<>>
    /\ dg_workflow = NoAttrs
    /\ method = 0
    /\ nclients <= calls - 1
    /\ func_calls = 0
    /\ pc = "w_raised" => raised = Error("AssertionError")

\* C7 witness: caller and workflow identifier are both invalid and the
\* AssertionError is what was raised.
C7_Witness ==
  /\ pc = "w_raised"
  /\ ~self.isUseCase
  /\ workflow \notin Workflow
  /\ Len(self.attrs) = 2
  /\ raised = Error("AssertionError")

\* The attributes whose set_workflow attempt failed: attempted, not set.
FailedAttrs ==
  {k \in 1..Len(set_calls) : dg_workflow[set_calls[k]] = NoWorkflow}

\* C8: set_workflow is attempted on every data-generator attribute exactly
\* once, in discovery order (while the loop runs, on the first i of them);
\* each failure is caught and logged once, never leaves the wrapper (the
\* wrapper fails after the loop only for an unknown use-case type or a
\* failing generation call), and does not keep the client from being built
\* and its queue from being populated: a wrapper past the loop with a known
\* type has its client, and a returned client its full queue, whatever
\* failed in the loop.
C8_EveryGeneratorAttempted ==
  (InWrapper /\ pc \notin {"w_assert", "w_workflow"}
     /\ self.isUseCase /\ workflow \in Workflow) =>
    /\ set_calls = SubSeq(data_generator_attributes, 1, i)
    /\ data_generator_attributes = self.attrs
    /\ error_log = Cardinality(FailedAttrs)
    /\ \A k \in 1..Len(set_calls) :
         dg_workflow[set_calls[k]] \in {NoWorkflow, workflow_enum}
    /\ pc # "w_config" => set_calls = self.attrs
    /\ pc = "w_raised" =>
         \/ raised = Error("NotImplementedError") /\ ~self.typeKnown
         \/ raised.type \in {"GeneratorError", "ConstructError"}
              /\ self.typeKnown /\ func_calls > 0
    /\ pc \in {"w_generate", "w_returned"} =>
         self.typeKnown /\ method = nclients /\ method > 0
    /\ pc = "w_returned" =>
         Len(request_data[method]) = QueueLengthFor(num)

\* C8 witness: of three attributes the first failed, the later two were
\* configured all the same, and the client came back with its two records.
C8_Witness ==
  /\ pc = "w_returned"
  /\ set_calls = <<3, 2, 1>>
  /\ dg_workflow[3] = NoWorkflow
  /\ dg_workflow[2] = workflow_enum /\ dg_workflow[1] = workflow_enum
  /\ error_log = 1
  /\ Len(request_data[method]) = 2

\* The configuration loop of the wrapper is over.
ConfigDone ==
  /\ pc \in {"w_config", "w_generate", "w_returned"}
  /\ i = Len(data_generator_attributes)
  /\ workflow_enum # NoWorkflow

\* C9 as stated: the multiplicity warning is logged iff the caller exposes
\* more than one data-generator attribute: none with one attribute (or
\* none), and with k >= 2 attributes one on the second attribute and on each
\* later one, k - 1 in all.
C9_WarningFromSecondAttribute ==
  ConfigDone =>
    LET k == Len(data_generator_attributes) IN
      warning_log = IF k >= 2 THEN k - 1 ELSE 0

\* This module's reading of the generate_request step: the generator
\* function was invoked once more.
GenerateCalled == func_calls' = func_calls + 1

\* The clients that exist after the step: held by the caller, or being
\* populated by the wrapper.
Live(c) == c \in returned' \/ (method' # 0 /\ c = method' /\ pc' # "idle")

\* C10: the queue is append-only under generate_request: a successful call
\* makes the client's queue one longer by putting the new record at the
\* end, the records queued before are the same records at the same
\* positions, a failing call leaves the queue as it was, no other client's
\* queue changes, and no step of any operation shrinks or reorders the
\* queue of a client that exists.
C10_AppendOnly ==
  [][/\ \A c \in ClientIds :
          Live(c) =>
            /\ Len(request_data'[c]) >= Len(request_data[c])
            /\ SubSeq(request_data'[c], 1, Len(request_data[c]))
                 = request_data[c]
     /\ GenerateCalled =>
          LET c == method' IN
            /\ raised' = NoError =>
                 /\ Len(request_data'[c]) = Len(request_data[c]) + 1
                 /\ request_data'[c] =
                      Append(request_data[c],
                             request_data'[c][Len(request_data'[c])])
            /\ raised' # NoError => request_data'[c] = request_data[c]
            /\ \A d \in ClientIds \ {c} : request_data'[d] = request_data[d]
     /\ ~GenerateCalled =>
          \A c \in ClientIds : Live(c) => request_data'[c] = request_data[c]
    ]_vars

\* C10 witness: a direct generate_request call on a client the wrapper had
\* given two records appended the third.
C10_Witness ==
  /\ pc = "g_returned"
  /\ Len(request_data[method]) = 3
  /\ \A k \in 1..3 : request_data[method][k].data = k

\* A generation call of the wrapper failed: the generator function or
\* construct_request raised.
GenerationFailed ==
  pc = "w_raised" /\ raised.type \in {"GeneratorError", "ConstructError"}

\* C11: a failure of the generator function or of construct_request in the
\* j-th of the num generation calls leaves the decorated call at once: the
\* j-th call appended nothing (the queue holds the j - 1 earlier records),
\* the generator was invoked j times and never again (calls j+1..num do not
\* happen, nothing is retried), the client is not returned, and the only
\* step left is the end of the call; a wrapper still generating, or
\* returning its client, has seen no generation failure.
C11_GenerationFailurePropagates ==
  /\ [](GenerationFailed =>
          /\ gen_i \in 1..QueueLengthFor(num)
          /\ func_calls = gen_i
          /\ Len(request_data[method]) = gen_i - 1
          /\ method \notin returned)
  /\ []((InWrapper /\ pc \in {"w_generate", "w_returned"}) =>
          /\ raised = NoError
          /\ func_calls = gen_i
          /\ Len(request_data[method]) = gen_i)
  /\ [][GenerationFailed =>
          /\ pc' = "idle"
          /\ func_calls' = 0
          /\ returned' = returned]_vars

\* C11 witness: with num = 2 the first generation call failed in
\* construct_request: nothing queued, one generator invocation, no client
\* returned.
C11_Witness ==
  /\ GenerationFailed
  /\ raised = Error("ConstructError")
  /\ num = 2
  /\ gen_i = 1
  /\ func_calls = 1
  /\ request_data[method] = <<>>
  /\ method \notin returned

\* C12: during send_request at most one request is in flight: a POST is
\* outstanding exactly while the loop is suspended on it, every earlier POST
\* has completed, and when the POST of element k is issued the results of
\* the k - 1 POSTs before it have been appended (a POST that left
\* send_request by an exception appended none and is the last one).
C12_OneRequestInFlight ==
  /\ [](in_flight \in {0, 1})
  /\ [](in_flight = 1 <=> pc = "s_await")
  /\ [](InSend =>
          /\ Len(sent) = Len(outcomes) + in_flight
          /\ pc = "s_await" => Len(json_responses) = Len(sent) - 1
          /\ pc \in {"s_loop", "s_returned"} =>
               Len(json_responses) = Len(sent))
  /\ [][Len(sent') > Len(sent) =>
          /\ in_flight = 0
          /\ Len(outcomes) = Len(sent)
          /\ Len(json_responses) = Len(sent)
          /\ Len(sent') = Len(sent) + 1]_vars

\* C12 witness: the third POST is outstanding, the first two have completed
\* and their results are in the list.
C12_Witness ==
  /\ pc = "s_await"
  /\ in_flight = 1
  /\ Len(sent) = 3
  /\ Len(outcomes) = 2
  /\ Len(json_responses) = 2

\* C13: one connection scope is acquired per send_request call, before the
\* first POST; every POST is issued, and awaited, while it is open; it is
\* released on every way out (normal return, all requests failed, an
\* exception leaving the loop), so that no connection is open once
\* send_request has ended or when no send_request runs.
C13_ConnectionScoped ==
  /\ [](client_open <=> pc \in {"s_loop", "s_await"})
  /\ [](InSend => scopes = 1)
  /\ [](~InSend => scopes = 0)
  /\ [][Len(sent') > Len(sent) =>
          client_open /\ client_open' /\ scopes = 1 /\ scopes' = 1]_vars
  /\ [][(client_open /\ ~client_open') =>
          pc' \in {"s_returned", "s_raised"}]_vars

\* C13 witness: an exception left the loop after the second POST (a success
\* response that is no JSON), one result had been collected, and the one
\* scope the call opened is closed.
C13_Witness ==
  /\ pc = "s_raised"
  /\ raised = Error("JSONDecodeError")
  /\ Len(sent) = 2
  /\ Len(json_responses) = 1
  /\ scopes = 1
  /\ ~client_open

\* C14: send_request performs no retries: the POSTs issued so far are the
\* first queue elements, each once and in order, whatever their outcomes;
\* when the list is returned the number of POSTs equals the queue length;
\* and a result once in the list, in particular the {} of a failed request,
\* stays what it is until send_request ends.
C14_NoRetries ==
  /\ [](InSend =>
          LET q == request_data[sending] IN
            /\ Len(sent) <= Len(q)
            /\ sent = SubSeq(q, 1, Len(sent))
            /\ \A j, k \in 1..Len(sent) : sent[j] = sent[k] => j = k
            /\ Len(outcomes) <= Len(sent)
            /\ pc = "s_returned" =>
                 /\ Len(sent) = Len(q)
                 /\ Len(outcomes) = Len(q)
                 /\ Cardinality({j \in 1..Len(q) : result[j] = EmptyMapping})
                      >= Cardinality({j \in 1..Len(q) :
                                        FailedRequest(outcomes[j])}))
  /\ [][(InSend /\ pc' # "idle") =>
          /\ Len(json_responses') >= Len(json_responses)
          /\ \A j \in 1..Len(json_responses) :
               json_responses'[j] = json_responses[j]
          /\ \A j \in 1..Len(sent) : sent'[j] = sent[j]]_vars

\* C14 witness: the first of three requests timed out; three POSTs were
\* issued in all, and the first result is the {} of the failed request.
C14_Witness ==
  /\ pc = "s_returned"
  /\ Len(request_data[sending]) = 3
  /\ TimedOut(outcomes[1])
  /\ SuccessStatus(outcomes[2]) /\ SuccessStatus(outcomes[3])
  /\ Len(sent) = 3
  /\ result[1] = EmptyMapping
  /\ result[2] # EmptyMapping

\* C15: send_request only reads the queue: no step of send_request, from
\* its call to its end, by return or by exception, changes any client's
\* queue; so a second send_request on the same client, with no operation in
\* between, POSTs the whole queue again and returns a list as long as the
\* first one.
C15_SendOnlyReads ==
  /\ [][(InSend \/ InSend') =>
          /\ request_data' = request_data
          /\ client_workflow' = client_workflow
          /\ returned' = returned]_vars
  /\ []((pc = "s_returned" /\ last_sent.client = sending) =>
          /\ Len(result) = last_sent.length
          /\ Len(result) = Len(request_data[sending])
          /\ sent = request_data[sending])

\* C15 witness: a second send_request on a client with three records, after
\* a first one that returned three results, returned three results again,
\* this time with a failed request among them.
C15_Witness ==
  /\ pc = "s_returned"
  /\ last_sent = [client |-> sending, length |-> 3]
  /\ Len(result) = 3
  /\ sent = request_data[sending]
  /\ TimedOut(outcomes[2])

\* The step constructs the wrapper's EHRClient.
ClientConstructed == pc = "w_config" /\ pc' = "w_generate"

\* C16: the decorated function is not idempotent: every invocation that
\* gets past its checks constructs a client the caller does not hold yet,
\* with an empty queue, and returns that client; no step of the invocation
\* changes the queue of a client returned earlier, what it returns holds
\* only the records of its own generation calls, and an append to one
\* client's queue changes no other client's queue.
C16_FreshClientPerCall ==
  /\ [][ClientConstructed =>
          /\ method' \notin returned
          /\ request_data'[method'] = <<>>
          /\ \A c \in returned : request_data'[c] = request_data[c]]_vars
  /\ [][(InWrapper \/ InWrapper') =>
          \A c \in returned : request_data'[c] = request_data[c]]_vars
  /\ [](pc = "w_returned" =>
          /\ method \in returned
          /\ Len(request_data[method]) = func_calls
          /\ func_calls = QueueLengthFor(num))
  /\ [][(pc = "w_generate" /\ pc' = "w_returned") =>
          /\ method \notin returned
          /\ returned' = returned \cup {method}]_vars
  /\ [][\A c, d \in ClientIds :
          (c # d /\ Len(request_data'[c]) > Len(request_data[c])) =>
            request_data'[d] = request_data[d]]_vars

\* C16 witness: the second invocation has returned its own client with two
\* records while the client of the first invocation holds three.
C16_Witness ==
  /\ pc = "w_returned"
  /\ calls = 2
  /\ method = 2
  /\ returned = {1, 2}
  /\ Len(request_data[1]) = 3
  /\ Len(request_data[2]) = 2
  /\ num = 2

\* What the generator calls of the returned decorated call look like when
\* there were n of them: each received the caller object and the call's
\* arguments, and the k-th record of the queue is construct_request of the
\* k-th call's output and the resolved workflow.
GeneratedInOrder(n) ==
  LET q == request_data[method] IN
    /\ func_calls = n
    /\ Len(gen_log) = n
    /\ Len(q) = n
    /\ workflow_enum = workflow
    /\ \A k \in 1..Len(gen_log) :
         /\ gen_log[k].args = <<self, args>>
         /\ k <= Len(q) => q[k] = construct_request(gen_log[k].out,
                                                    workflow_enum)

\* C17 as stated: a decorated call that returns has invoked the generator
\* function exactly num times, each time with the caller object and the
\* call's arguments, and the k-th queued record is construct_request of the
\* k-th output and the resolved workflow.
C17_GeneratorCalledNumTimes ==
  pc = "w_returned" => GeneratedInOrder(num)

\* C17, amended: a decorated call that returns has invoked the generator
\* function num times when num is positive and not at all otherwise, one
\* call after the other, each time with the caller object and the call's
\* arguments; the k-th queued record is construct_request of the k-th
\* output and the resolved workflow.
C17_GeneratorCalledRangeNumTimes ==
  /\ [](pc = "w_returned" => GeneratedInOrder(QueueLengthFor(num)))
  /\ [](InWrapper =>
          /\ Len(gen_log) = func_calls
          /\ func_calls <= QueueLengthFor(num)
          /\ \A k \in 1..Len(gen_log) : gen_log[k].args = <<self, args>>)
  /\ [][(InWrapper /\ InWrapper') =>
          /\ func_calls' \in {func_calls, func_calls + 1}
          /\ \A k \in 1..Len(gen_log) : gen_log'[k] = gen_log[k]]_vars

\* C17 witness: a call with num = 2 and arguments "b" has returned after
\* two generator calls, whose outputs are the two records in order.
C17_Witness ==
  /\ pc = "w_returned"
  /\ num = 2
  /\ args = "b"
  /\ Len(gen_log) = 2
  /\ gen_log[2].args = <<self, "b">>
  /\ request_data[method][2] = construct_request(gen_log[2].out, workflow)
  /\ gen_log[1].out # gen_log[2].out

\* send_request has been called and has not ended.
SendRunning == pc \in {"s_loop", "s_await"}

\* A returned send_request has issued exactly one POST per queue record.
ReturnedAfterAllPosts ==
  pc = "s_returned" =>
    /\ Len(sent) = Len(request_data[sending])
    /\ Len(outcomes) = Len(sent)
    /\ in_flight = 0

\* While the awaited POST's server never finishes responding, send_request
\* stays suspended on that request and sends nothing more.
SuspendedForever ==
  hung =>
    /\ hung'
    /\ pc = "s_await" /\ pc' = "s_await"
    /\ sent' = sent
    /\ send_i' = send_i
    /\ in_flight' = 1
    /\ json_responses' = json_responses

UncaughtFailure(o) ==
  o.kind = "response" /\ is_success(o.status) /\ ~Decodable(o.text)

C20_TypeCheckAfterConfiguration ==
  /\ []((pc = "w_raised" /\ raised = Error("NotImplementedError")) =>
          /\ ~self.typeKnown
          /\ set_calls = self.attrs
          /\ i = Len(self.attrs)
          /\ error_log = Cardinality(FailedAttrs)
          /\ \A k \in 1..Len(set_calls) :
               dg_workflow[set_calls[k]] \in {NoWorkflow, workflow_enum}
          /\ workflow_enum = workflow
          /\ method = 0
          /\ func_calls = 0)
  /\ []((pc = "w_raised" /\ raised.type \in {"AssertionError", "ValueError"}) =>
          /\ set_calls = <<>>
          /\ dg_workflow = NoAttrs
          /\ error_log = 0)
  /\ [][(pc = "w_config" /\ pc' # "w_config") =>
          /\ i = Len(data_generator_attributes)
          /\ set_calls = self.attrs
          /\ dg_workflow' = dg_workflow
          /\ pc' = IF self.typeKnown THEN "w_generate" ELSE "w_raised"]_vars

\* C20 witness: a caller of an unrecognized type with two data generators:
\* the call has failed with NotImplementedError and both generators carry
\* the workflow of the call.
C20_Witness ==
  /\ pc = "w_raised"
  /\ raised = Error("NotImplementedError")
  /\ set_calls = <<1, 2>>
  /\ dg_workflow[1] = "encounter-discharge"
  /\ dg_workflow[2] = "encounter-discharge"
  /\ dg_workflow # NoAttrs

Next ==
  \/ CallWrapper
  \/ AssertUseCase
  \/ ResolveWorkflow
  \/ ConfigureGenerator
  \/ CheckUseCaseType
  \/ GenerateStep
  \/ ReturnClient
  \/ DirectGenerate
  \/ StartSend
  \/ Post
  \/ Complete
  \/ ReturnResponses
  \/ Finish

Spec == Init /\ [][Next]_vars

\* send_request is a coroutine the event loop keeps running: each of its
\* steps is taken once it can be, and a POST whose server finishes
\* responding completes.
SpecFair ==
  /\ Spec
  /\ WF_vars(Post)
  /\ WF_vars(Complete)
  /\ WF_vars(ReturnResponses)

====
